---- MODULE Spec2Model ----
(***************************************************************************)
(* Model of src/aboutsettings.cpp: the release-file parser                 *)
(* parseReleaseFile() and the disk-usage aggregator                        *)
(* AboutSettings::diskUsageModel().                                        *)
(*                                                                         *)
(* A QString is a sequence of one-character strings.  One character stands *)
(* for each class the code distinguishes: "K", "a", "_" for [a-zA-Z_],     *)
(* "1" for [0-9], " " for whitespace, "-" for any other character, and the *)
(* characters the code names itself: "#", "=", "'", the double quote and   *)
(* the backslash.                                                          *)
(***************************************************************************)
EXTENDS Integers, Sequences, FiniteSets

VARIABLES
    file,           \* the lines QTextStream::readLine() will return, in order
    pos,            \* number of lines parseReleaseFile has finished with
    result,         \* QMap<QString, QString> result
    pc,             \* "reading" (in the while loop), "done" (returned), "aborted"
    assertsEnabled, \* whether the build keeps Q_ASSERT (no QT_NO_DEBUG)
    mtab,           \* the entries getmntent_r() will return, in order
    mpos,           \* number of mount entries read
    devices,        \* QMap<QString,QString> devices
    paths,          \* QStringList paths
    rows,           \* QVariantList result of diskUsageModel
    sysinfo,        \* what m_sysinfo answers for a path
    dpc             \* position in diskUsageModel

vars == <<file, pos, result, pc, assertsEnabled,
          mtab, mpos, devices, paths, rows, sysinfo, dpc>>

parseVars == <<file, pos, result, pc, assertsEnabled>>
diskVars == <<mtab, mpos, devices, paths, rows, sysinfo, dpc>>

-----------------------------------------------------------------------------
(* Bounds and input alphabets                                              *)

MaxValLen == 3
MaxMounts == 3

DQ == "\""
SQ == "'"
BS == "\\"
EQ == "="
NUL == "NUL"

Range(s) == { s[i] : i \in 1..Len(s) }

SeqsUpTo(S, n) == UNION { [1..k -> S] : k \in 0..n }

\* Texts before the first "=": valid identifiers and every way to be invalid.
KeyTexts ==
    { <<"K">>, <<"_", "1">>, <<>>, <<"1", "K">>, <<"K", "-">>,
      <<"#", "K">>, <<" ", "K">>, <<"K", " ">> }

ValAlphabet == { "a", " ", DQ, SQ, BS, EQ }

RawValues == SeqsUpTo(ValAlphabet, MaxValLen)

Lines == KeyTexts \cup { k \o <<EQ>> \o v : k \in KeyTexts, v \in RawValues }

\* Lines that may stand before and after the line under study.
EarlierLines == { <<"K", EQ, "a">>, <<"1", EQ, "a">> }
LaterLines == { <<"K", EQ, "a">> }

OptLine(S) == { <<>> } \cup { <<l>> : l \in S }

Files ==
    { <<>> } \cup
    { e \o <<l>> \o t : e \in OptLine(EarlierLines), l \in Lines, t \in OptLine(LaterLines) }

-----------------------------------------------------------------------------
(* QString operations as parseReleaseFile uses them                        *)

startsWith(s, c) == Len(s) > 0 /\ s[1] = c

\* 1-based index of the first occurrence of c, 0 when there is none
indexOf(s, c) ==
    IF c \in Range(s)
    THEN CHOOSE i \in 1..Len(s) : s[i] = c /\ \A j \in 1..(i - 1) : s[j] # c
    ELSE 0

\* line.section('=', 0, 0)
sectionKey(line) ==
    IF indexOf(line, EQ) = 0 THEN line
    ELSE SubSeq(line, 1, indexOf(line, EQ) - 1)

\* line.section('=', 1)
sectionValue(line) ==
    IF indexOf(line, EQ) = 0 THEN <<>>
    ELSE SubSeq(line, indexOf(line, EQ) + 1, Len(line))

isSpace(c) == c = " "

\* QString::trimmed(): whitespace removed from the start and the end
trimmed(s) ==
    IF \A i \in 1..Len(s) : isSpace(s[i]) THEN <<>>
    ELSE LET first == CHOOSE i \in 1..Len(s) :
                          ~isSpace(s[i]) /\ \A j \in 1..(i - 1) : isSpace(s[j])
             last == CHOOSE i \in 1..Len(s) :
                          ~isSpace(s[i]) /\ \A j \in (i + 1)..Len(s) : isSpace(s[j])
         IN SubSeq(s, first, last)

AlphaUnderscore == { "K", "a", "_" }
AlnumUnderscore == AlphaUnderscore \cup { "1" }

\* a match of the pattern that stops short of the end of the key also counts
exactMatch_prefixOnly(key) ==
    \E n \in 1..Len(key) : \A i \in 1..n : key[i] \in AlphaUnderscore

\* QRegExp("[a-zA-Z_]+[a-zA-Z0-9_]*").exactMatch(key)
exactMatch(key) ==
    \E n \in 1..Len(key) :
        /\ \A i \in 1..n : key[i] \in AlphaUnderscore
        /\ \A i \in (n + 1)..Len(key) : key[i] \in AlnumUnderscore

\* value.at(i), 0-based.  Past the end the precondition of QString::at is
\* broken: a build without Q_ASSERT reads the terminator after the data.
at(value, i) == IF i >= 0 /\ i < Len(value) THEN value[i + 1] ELSE NUL

atInRange(value, i) == i >= 0 /\ i < Len(value)

isQuote(c) == c = SQ \/ c = DQ

\* only the opening quote is removed
mid_keepLast(s, position, n) ==
    IF position > Len(s) THEN <<>> ELSE SubSeq(s, position + 1, Len(s))

\* QString::mid(position, n) for position >= 0
mid(s, position, n) ==
    IF position > Len(s) THEN <<>>
    ELSE LET avail == Len(s) - position
             len == IF n < 0 \/ n > avail THEN avail ELSE n
         IN SubSeq(s, position + 1, position + len)

\* the opening quote has no identical closing quote
quotingError(value) == at(value, 0) # at(value, Len(value) - 1)

\* where QRegularExpression("\\\\(.)") matches at or after index from, else 0
nextEscape(s, from) ==
    IF \E i \in from..(Len(s) - 1) : s[i] = BS
    THEN CHOOSE i \in from..(Len(s) - 1) :
             s[i] = BS /\ \A j \in from..(i - 1) : s[j] # BS
    ELSE 0

\* the search resumes at the captured character instead of after the match
RECURSIVE replaceFrom_overlapping(_, _)
replaceFrom_overlapping(s, from) ==
    LET m == nextEscape(s, from)
    IN IF m = 0 THEN SubSeq(s, from, Len(s))
       ELSE SubSeq(s, from, m - 1) \o replaceFrom_overlapping(s, m + 1)

\* global replacement of each match by its capture "\\1", from index from on
RECURSIVE replaceFrom(_, _)
replaceFrom(s, from) ==
    LET m == nextEscape(s, from)
    IN IF m = 0 THEN SubSeq(s, from, Len(s))
       ELSE SubSeq(s, from, m - 1) \o <<s[m + 1]>> \o replaceFrom(s, m + 2)

\* value.replace(QRegularExpression("\\\\(.)"), "\\1")
replace(value) == replaceFrom(value, 1)

\* the value after the quote-removal block
unquoted(value) ==
    IF isQuote(at(value, 0)) THEN mid(value, 1, Len(value) - 2) ELSE value

\* result[key] = value
assign(map, key, value) ==
    [ k \in DOMAIN map \cup {key} |-> IF k = key THEN value ELSE map[k] ]

EmptyMap == [ k \in {} |-> <<>> ]

-----------------------------------------------------------------------------
(* parseReleaseFile: one action per way through the body of the while loop *)

line == file[pos + 1]
key == sectionKey(line)
value == trimmed(sectionValue(line))

InLoop == pc = "reading" /\ pos < Len(file)

SkipComment ==
    /\ InLoop
    /\ startsWith(line, "#")
    /\ pos' = pos + 1
    /\ UNCHANGED <<file, result, pc, assertsEnabled>>
    /\ UNCHANGED diskVars

InvalidKey ==
    /\ InLoop
    /\ ~startsWith(line, "#")
    /\ ~exactMatch(key)
    /\ pos' = pos + 1
    /\ UNCHANGED <<file, result, pc, assertsEnabled>>
    /\ UNCHANGED diskVars

\* value.at(0) on an empty value with Q_ASSERT compiled in
AssertFailure ==
    /\ InLoop
    /\ ~startsWith(line, "#")
    /\ exactMatch(key)
    /\ ~atInRange(value, 0)
    /\ assertsEnabled
    /\ pc' = "aborted"
    /\ UNCHANGED <<file, pos, result, assertsEnabled>>
    /\ UNCHANGED diskVars

QuotingError ==
    /\ InLoop
    /\ ~startsWith(line, "#")
    /\ exactMatch(key)
    /\ atInRange(value, 0) \/ ~assertsEnabled
    /\ isQuote(at(value, 0))
    /\ quotingError(value)
    /\ pos' = pos + 1
    /\ UNCHANGED <<file, result, pc, assertsEnabled>>
    /\ UNCHANGED diskVars

StoreEntry ==
    /\ InLoop
    /\ ~startsWith(line, "#")
    /\ exactMatch(key)
    /\ atInRange(value, 0) \/ ~assertsEnabled
    /\ isQuote(at(value, 0)) => ~quotingError(value)
    /\ result' = assign(result, key, replace(unquoted(value)))
    /\ pos' = pos + 1
    /\ UNCHANGED <<file, pc, assertsEnabled>>
    /\ UNCHANGED diskVars

\* in.atEnd(): release.close() and return result
AtEnd ==
    /\ pc = "reading"
    /\ pos = Len(file)
    /\ pc' = "done"
    /\ UNCHANGED <<file, pos, result, assertsEnabled>>
    /\ UNCHANGED diskVars

DiskIdle ==
    /\ mtab = <<>>
    /\ mpos = 0
    /\ devices = EmptyMap
    /\ paths = <<>>
    /\ rows = <<>>
    /\ sysinfo = <<>>
    /\ dpc = "idle"

Init ==
    /\ file \in Files
    /\ pos = 0
    /\ result = EmptyMap
    /\ pc = "reading"
    /\ assertsEnabled \in BOOLEAN
    /\ DiskIdle

Next ==
    \/ SkipComment
    \/ InvalidKey
    \/ AssertFailure
    \/ QuotingError
    \/ StoreEntry
    \/ AtEnd

Spec == Init /\ [][Next]_vars

-----------------------------------------------------------------------------
(* AboutSettings::diskUsageModel                                           *)

\* mnt_dir values, in the order QMap keeps its keys (operator< of QString)
MountDirs == <<"/", "/home", "/mnt">>

\* mnt_fsname values; getmntent_r never yields an empty one
FsNames == { "/dev/sda1", "/dev/sda2" }

MountEntries == [ mnt_dir : Range(MountDirs), mnt_fsname : FsNames ]

MountTables == SeqsUpTo(MountEntries, MaxMounts)

\* bytes m_sysinfo may answer
DiskSpaces == { 1, 2 }

StorageInfos ==
    [ availableDiskSpace : [ {"/", "/home"} -> DiskSpaces ],
      totalDiskSpace : [ {"/", "/home"} -> DiskSpaces ] ]

candidates == <<"/home">>

\* the root is left out of the initial list
rootPaths_empty == <<>>

\* QStringList paths; paths << "/"
rootPaths == <<"/">>

contains(list, x) == x \in Range(list)

\* an entry already in the map is kept
mapAssign_keepFirst(map, k, v) ==
    IF k \in DOMAIN map THEN map
    ELSE [ x \in DOMAIN map \cup {k} |-> IF x = k THEN v ELSE map[x] ]

\* devices[k] = v
mapAssign(map, k, v) ==
    [ x \in DOMAIN map \cup {k} |-> IF x = k THEN v ELSE map[x] ]

\* devices[k] read through the non-const operator[]: a missing key is
\* inserted with a default-constructed (empty) QString
mapValue(map, k) == IF k \in DOMAIN map THEN map[k] ELSE ""

\* devices.keys(): ascending
keys(map) == SelectSeq(MountDirs, LAMBDA d : d \in DOMAIN map)

\* the condition of the first foreach
reported(map, mountpoint) ==
    contains(candidates, mountpoint) /\ map[mountpoint] # mapValue(map, "/")

\* the first foreach: the mountpoints appended to paths
RECURSIVE selectPaths(_, _, _)
selectPaths(map, ks, acc) ==
    IF ks = <<>> THEN acc
    ELSE selectPaths(map, Tail(ks),
                     IF reported(map, Head(ks)) THEN Append(acc, Head(ks)) ELSE acc)

\* devices after the first foreach: devices["/"] was evaluated if some key
\* is a candidate
afterSelect(map) ==
    IF (\E k \in DOMAIN map : contains(candidates, k)) /\ "/" \notin DOMAIN map
    THEN mapAssign(map, "/", "")
    ELSE map

\* every row takes the type of a partitioned device
storageType_neverMass(ps, path) ==
    IF path = "/" THEN "system" ELSE "user"

\* row["storageType"]
storageType(ps, path) ==
    IF Len(ps) = 1 THEN "mass"
    ELSE IF path = "/" THEN "system" ELSE "user"

\* the body of the second foreach
row(ps, path, info) ==
    [ storageType |-> storageType(ps, path),
      path |-> path,
      available |-> info.availableDiskSpace[path],
      total |-> info.totalDiskSpace[path] ]

buildRows(ps, info) == [ i \in 1..Len(ps) |-> row(ps, ps[i], info) ]

\* getmntent_r returned an entry
GetMntEnt ==
    /\ dpc = "scan"
    /\ mpos < Len(mtab)
    /\ devices' = mapAssign(devices, mtab[mpos + 1].mnt_dir, mtab[mpos + 1].mnt_fsname)
    /\ mpos' = mpos + 1
    /\ UNCHANGED <<mtab, paths, rows, sysinfo, dpc>>
    /\ UNCHANGED parseVars

\* getmntent_r returned NULL; endmntent
EndMntEnt ==
    /\ dpc = "scan"
    /\ mpos = Len(mtab)
    /\ dpc' = "select"
    /\ UNCHANGED <<mtab, mpos, devices, paths, rows, sysinfo>>
    /\ UNCHANGED parseVars

\* foreach (const QString &mountpoint, devices.keys())
SelectPaths ==
    /\ dpc = "select"
    /\ paths' = selectPaths(devices, keys(devices), paths)
    /\ devices' = afterSelect(devices)
    /\ dpc' = "rows"
    /\ UNCHANGED <<mtab, mpos, rows, sysinfo>>
    /\ UNCHANGED parseVars

\* foreach (const QString &path, paths); return result
BuildRows ==
    /\ dpc = "rows"
    /\ rows' = buildRows(paths, sysinfo)
    /\ dpc' = "done"
    /\ UNCHANGED <<mtab, mpos, devices, paths, sysinfo>>
    /\ UNCHANGED parseVars

ParseIdle ==
    /\ file = <<>>
    /\ pos = 0
    /\ result = EmptyMap
    /\ pc = "idle"
    /\ assertsEnabled = FALSE

DiskInit ==
    /\ mtab \in MountTables
    /\ mpos = 0
    /\ devices = EmptyMap
    /\ paths = rootPaths
    /\ rows = <<>>
    /\ sysinfo \in StorageInfos
    /\ dpc = "scan"
    /\ ParseIdle

DiskNext ==
    \/ GetMntEnt
    \/ EndMntEnt
    \/ SelectPaths
    \/ BuildRows

DiskSpec == DiskInit /\ [][DiskNext]_vars

-----------------------------------------------------------------------------
(* Vocabulary of the properties                                            *)

\* [a-zA-Z_][a-zA-Z0-9_]* as a whole string
IsIdentifier(k) ==
    /\ Len(k) >= 1
    /\ k[1] \in AlphaUnderscore
    /\ \A i \in 2..Len(k) : k[i] \in AlnumUnderscore

\* s without its trailing whitespace
RECURSIVE TrimTrailing(_)
TrimTrailing(s) ==
    IF s # <<>> /\ isSpace(s[Len(s)]) THEN TrimTrailing(SubSeq(s, 1, Len(s) - 1))
    ELSE s

\* one left-to-right pass: a backslash followed by a character yields that
\* character, which is consumed; everything else is copied
RECURSIVE OnePass(_, _)
OnePass(s, i) ==
    IF i > Len(s) THEN <<>>
    ELSE IF s[i] = BS /\ i < Len(s) THEN <<s[i + 1]>> \o OnePass(s, i + 2)
    ELSE <<s[i]>> \o OnePass(s, i + 1)

KeyOf(l) == sectionKey(l)
RawOf(l) == sectionValue(l)
TrimmedOf(l) == trimmed(sectionValue(l))

StartsQuoted(v) == v # <<>> /\ (v[1] = SQ \/ v[1] = DQ)

\* a valid key and nothing but whitespace after the first "="
EmptyValueLine(l) == IsIdentifier(KeyOf(l)) /\ TrimmedOf(l) = <<>>

\* a valid key and a value that is one quote character
LoneQuoteLine(l) ==
    IsIdentifier(KeyOf(l)) /\ Len(TrimmedOf(l)) = 1 /\ StartsQuoted(TrimmedOf(l))

\* a valid key and a value of two or more characters that opens with a quote
QuotedLine(l) ==
    IsIdentifier(KeyOf(l)) /\ Len(TrimmedOf(l)) >= 2 /\ StartsQuoted(TrimmedOf(l))

ClosesQuote(v) == v[Len(v)] = v[1]

\* bad key, or an opening quote without the identical closing one
Malformed(l) ==
    \/ ~IsIdentifier(KeyOf(l))
    \/ StartsQuoted(TrimmedOf(l)) /\ ~ClosesQuote(TrimmedOf(l))

\* the value between the enclosing quotes, or the value itself
Stripped(v) == IF StartsQuoted(v) THEN SubSeq(v, 2, Len(v) - 1) ELSE v

\* the last line parseReleaseFile has finished with stored an entry
LastLineStored ==
    /\ pos >= 1
    /\ ~startsWith(file[pos], "#")
    /\ ~Malformed(file[pos])

\* the mapping of a file all of whose lines are well-formed
RECURSIVE MappingOf(_, _)
MappingOf(ls, m) ==
    IF ls = <<>> THEN m
    ELSE MappingOf(Tail(ls),
                   assign(m, KeyOf(Head(ls)), replace(Stripped(TrimmedOf(Head(ls))))))

WellFormedLines(f) == SelectSeq(f, LAMBDA l : ~Malformed(l))

-----------------------------------------------------------------------------
(* Properties of parseReleaseFile                                          *)

\* C1: a line with a valid key and an empty trimmed value is accepted: the
\* parse does not stop at it, the mapping then holds key -> "", and the
\* parse returns only after every line of the file.
C1_EmptyValueAccepted ==
    /\ (pc = "aborted") => ~EmptyValueLine(file[pos + 1])
    /\ (pos >= 1 /\ EmptyValueLine(file[pos])) =>
           /\ KeyOf(file[pos]) \in DOMAIN result
           /\ result[KeyOf(file[pos])] = <<>>
    /\ (pc = "done") => pos = Len(file)

\* C2: a line with a valid key whose trimmed value is a single quote
\* character is rejected: the mapping is left as it was and the parse goes
\* on with the next line.
C2_LoneQuoteRejected ==
    [][ (InLoop /\ LoneQuoteLine(line)) =>
            (result' = result /\ pos' = pos + 1 /\ pc' = "reading") ]_vars

\* C3: every key of the mapping is an identifier (so it is not empty, does
\* not start with a digit, holds no "-", "#", "=" or whitespace) and is the
\* key of a line already read that is not a comment.
C3_KeysAreIdentifiers ==
    \A k \in DOMAIN result :
        /\ IsIdentifier(k)
        /\ k # <<>>
        /\ k[1] # "1"
        /\ Range(k) \cap { "-", "#", EQ, " " } = {}
        /\ \E i \in 1..pos : ~startsWith(file[i], "#") /\ KeyOf(file[i]) = k

C3_Witness ==
    /\ pc = "done"
    /\ DOMAIN result = { <<"K">> }
    /\ \E i \in 1..Len(file) : startsWith(file[i], "#")
    /\ \E i \in 1..Len(file) :
           ~startsWith(file[i], "#") /\ ~IsIdentifier(KeyOf(file[i]))

\* C4: a malformed line does not stop the parse: once the parse has ended,
\* every well-formed line after a malformed one has its key in the mapping,
\* and the returned mapping is that of the file without its malformed lines.
C4_MalformedLineSkipped ==
    /\ (pc \in { "done", "aborted" }) =>
           \A j \in 1..Len(file) :
               ((\E i \in 1..(j - 1) : Malformed(file[i])) /\ ~Malformed(file[j])) =>
                   (j <= pos /\ KeyOf(file[j]) \in DOMAIN result)
    /\ (pc = "done") => result = MappingOf(WellFormedLines(file), EmptyMap)

\* C5: for a valid key and a raw value that is not quoted and holds no
\* backslash, the stored value is the raw value without its trailing
\* whitespace, leading whitespace and further "=" kept.
C5_OnlyTrailingWhitespaceRemoved ==
    (/\ pos >= 1
     /\ IsIdentifier(KeyOf(file[pos]))
     /\ BS \notin Range(RawOf(file[pos]))
     /\ ~StartsQuoted(TrimmedOf(file[pos]))
     /\ ~StartsQuoted(RawOf(file[pos]))) =>
        /\ KeyOf(file[pos]) \in DOMAIN result
        /\ result[KeyOf(file[pos])] = TrimTrailing(RawOf(file[pos]))

\* C6: for a valid key and a trimmed value of two or more characters that
\* opens with a quote: when it ends with the identical quote, the entry
\* stored is the unescaped text between the first and the last character;
\* otherwise the line is discarded and the mapping stays as it was.
C6_QuotedValue ==
    [][ (InLoop /\ QuotedLine(line)) =>
            /\ pos' = pos + 1
            /\ pc' = "reading"
            /\ IF ClosesQuote(value)
               THEN result' =
                        assign(result, key, replace(SubSeq(value, 2, Len(value) - 1)))
               ELSE result' = result ]_vars

C6_Witness ==
    /\ pos >= 1
    /\ file[pos] = <<"K", EQ, DQ, "a", DQ>>
    /\ result[<<"K">>] = <<"a">>

\* C7: the stored value is the one-pass unescaping of the value after quote
\* stripping; two backslashes before a character give one backslash and the
\* character, a final backslash is kept, and a\"b gives a"b.
C7_UnescapeOnePass ==
    /\ LastLineStored =>
           /\ KeyOf(file[pos]) \in DOMAIN result
           /\ result[KeyOf(file[pos])] = OnePass(Stripped(TrimmedOf(file[pos])), 1)
    /\ replace(<<BS, BS, "n">>) = <<BS, "n">>
    /\ replace(<<"a", BS>>) = <<"a", BS>>
    /\ replace(<<"a", BS, DQ, "b">>) = <<"a", DQ, "b">>

C7_Witness ==
    /\ pos >= 1
    /\ file[pos] = <<"K", EQ, BS, BS, "a">>
    /\ result[<<"K">>] = <<BS, "a">>

-----------------------------------------------------------------------------
(* Properties of diskUsageModel                                            *)

HasEntry(tab, d) == \E i \in 1..Len(tab) : tab[i].mnt_dir = d

\* the device of the last entry for d
LastDevice(tab, d) ==
    LET last == CHOOSE i \in 1..Len(tab) :
                    tab[i].mnt_dir = d /\ \A j \in (i + 1)..Len(tab) : tab[j].mnt_dir # d
    IN tab[last].mnt_fsname

RowPaths == { rows[i].path : i \in 1..Len(rows) }

\* C8: a candidate is reported exactly when the table has an entry for it
\* and the device of its last entry is not the device of the last entry for
\* "/"; nothing but "/" and candidates is reported.
C8_CandidateReported ==
    (dpc = "done") =>
        /\ \A c \in Range(candidates) :
               (c \in RowPaths) <=>
                   /\ HasEntry(mtab, c)
                   /\ HasEntry(mtab, "/") => LastDevice(mtab, c) # LastDevice(mtab, "/")
        /\ RowPaths \subseteq {"/"} \cup Range(candidates)

C8_Witness ==
    /\ dpc = "done"
    /\ "/home" \in RowPaths
    /\ HasEntry(mtab, "/")
    /\ \E i \in 1..Len(mtab) :
           mtab[i].mnt_dir = "/home" /\ mtab[i].mnt_fsname = LastDevice(mtab, "/")

\* C9: one reported path gives one row of type mass; two or more give
\* system for "/" and user for the others; available and total are the
\* provider's answers for the row's own path.
C9_StorageTypes ==
    (dpc = "done") =>
        \A i \in 1..Len(rows) :
            /\ (Len(rows) = 1) => rows[i].storageType = "mass"
            /\ (Len(rows) >= 2 /\ rows[i].path = "/") => rows[i].storageType = "system"
            /\ (Len(rows) >= 2 /\ rows[i].path # "/") => rows[i].storageType = "user"
            /\ rows[i].available = sysinfo.availableDiskSpace[rows[i].path]
            /\ rows[i].total = sysinfo.totalDiskSpace[rows[i].path]

C9_Witness ==
    /\ dpc = "done"
    /\ Len(rows) = 2
    /\ rows[1].storageType = "system"
    /\ rows[2].storageType = "user"
    /\ rows[1].total # rows[2].total
    /\ rows[1].available # rows[2].available

\* C10: the rows are not empty, the first row is "/", "/" is in exactly one
\* row and no two rows have the same path.
C10_RootFirstNoDuplicates ==
    (dpc = "done") =>
        /\ Len(rows) >= 1
        /\ rows[1].path = "/"
        /\ Cardinality({ i \in 1..Len(rows) : rows[i].path = "/" }) = 1
        /\ \A i, j \in 1..Len(rows) : rows[i].path = rows[j].path => i = j

C10_Witness ==
    /\ dpc = "done"
    /\ Len(rows) = 2
    /\ \E i, j \in 1..Len(mtab) :
           i < j /\ mtab[i].mnt_dir = "/" /\ mtab[j].mnt_dir = "/"

====
